---- MODULE Spec2Model ----
(***************************************************************************)
(* The conversation loop of the voice assistant overlay (gui.py,           *)
(* audio_handler.py, llm_client.py): AssistantHUD on the GUI thread, the   *)
(* three QThread workers (STTWorker, LLMWorker, TTSWorker), the queued     *)
(* signals they post to the GUI thread's event loop, and the single-shot   *)
(* timers that resume listening.                                           *)
(***************************************************************************)
EXTENDS Integers, Sequences, FiniteSets, Bags, TLC

VARIABLES
    visible,        \* QWidget.isVisible() of the HUD
    status,         \* status_label: [msg, tone]
    response,       \* response_label: [text, shown]
    pulse,          \* PulseIndicator running
    conversation,   \* AssistantHUD._conversation (the list object it refers to)
    stt_worker,     \* AssistantHUD._stt_worker: None or a worker object
    llm_worker,     \* AssistantHUD._llm_worker
    tts_worker,     \* AssistantHUD._tts_worker
    workers,        \* the worker objects alive: id -> worker
    queue,          \* signals posted to the GUI thread, in posting order
    timers,         \* pending QTimer.singleShot(_, _resume_listening) timers
    generation,     \* number of activate() calls so far (the session generation)
    closed,         \* the generation the last deactivate() call ended (0: none yet)
    log,            \* every turn ever appended to the history, in order
    config_file,    \* config.yaml as found on disk when config.py is imported
    DEFAULTS,       \* config.DEFAULTS (the dict object)
    overrides,      \* config._overrides
    CFG,            \* config.CFG
    startup         \* "import", "yaml loaded", "ready", or "crashed"

hud == <<visible, status, response, pulse, conversation, stt_worker, llm_worker,
         tts_worker, workers, queue, timers, generation, closed, log>>

config == <<config_file, DEFAULTS, overrides, CFG, startup>>

vars == <<visible, status, response, pulse, conversation, stt_worker, llm_worker,
          tts_worker, workers, queue, timers, generation, closed, log,
          config_file, DEFAULTS, overrides, CFG, startup>>

\* ---------------------------------------------------------------- bounds
MaxActivations == 1   \* activate() calls in one run of Spec and of SpecCap
MaxSessions    == 2   \* activate() calls in one run of SpecSessions
MaxRounds      == 2   \* utterances on their way into the history at a time, Spec
CapRounds      == 22  \* rounds recorded in one run of SpecCap
MaxSessionRounds == 3 \* utterances on their way into the history, SpecSessions
MaxOverrides   == 2   \* settings given in one config.yaml, SpecConfig
MaxOverlap     == 2   \* activate() calls in one run of SpecOverlap
MaxOverlapRounds == 2 \* utterances on their way into the history, SpecOverlap
MaxHistorySessions == 2 \* activate() calls in one run of SpecHistory
MaxHistoryRounds == 2 \* rounds recorded in one run of SpecHistory
MaxQuietActivations == 1 \* activate() calls in one run of SpecQuiet
MaxQuietRounds == 1 \* rounds recorded in one run of SpecQuiet

\* ------------------------------------------------------ program constants
HISTORY_CAP       == 40
STT_ERROR_DELAY   == 2000
LLM_ERROR_DELAY   == 3000
TTS_RESUME_DELAY  == 500

None == 0
\* a reference to a worker object whose thread has ended and whose signals were
\* all handled: nothing tells two such objects apart
Done == -1
\* names for the worker objects: each activate() adds one stage in flight, and every
\* handler starts at most the one stage that follows the one it handled
WorkerIds == 1..(MaxActivations + MaxSessions + MaxOverlap)

\* colour tones of the status label
ACCENT_COLOR == "accent"
TEXT_COLOR   == "text"
ERROR_COLOR  == "error"
SUBTLE_COLOR == "subtle"

\* status texts
MSG_INITIAL   == "press to start"
MSG_LISTENING == "listening"
MSG_SPEAK_NOW == "listening, speak now"
MSG_THINKING  == "thinking"
MSG_ANSWER    == "answer:"

\* failure messages of the stages
STT_ERRORS == {"no microphone", "could not understand audio"}
LLM_ERRORS == {"cannot connect to OpenClaw"}
TTS_ERRORS == {"TTS Error: temp file", "TTS Error: synthesis", "TTS Error: afplay"}

\* ------------------------------------------------------------ UI helpers
SetCollapsed == [text |-> "", shown |-> FALSE]

\* a slip: the panel is shown without the reply
SetExpandedBlank(text) == [text |-> "", shown |-> TRUE]

SetExpanded(text) == [text |-> text, shown |-> TRUE]

SetStatus(msg, color) == [msg |-> msg, tone |-> color]

\* ------------------------------------------------------------- history
Turn(role, content) == [role |-> role, content |-> content]

\* a slip: only the reply is recorded
AppendReplyOnly(conv, user_text, reply) == Append(conv, Turn("assistant", reply))

AppendPair(conv, user_text, reply) ==
    Append(Append(conv, Turn("user", user_text)), Turn("assistant", reply))

\* a slip: the slice keeps the head of the list, [:40] for [-40:]
CapHistoryOldest(conv) ==
    IF Len(conv) > HISTORY_CAP THEN SubSeq(conv, 1, HISTORY_CAP) ELSE conv

CapHistory(conv) ==
    IF Len(conv) > HISTORY_CAP
    THEN SubSeq(conv, Len(conv) - HISTORY_CAP + 1, Len(conv))
    ELSE conv

\* ------------------------------------------------------------- workers
\* LLMWorker.conversation is `conversation or []`: the caller's list object itself
\* (alias) unless that list is empty, and then a fresh empty list of its own.
OwnList(val) == [alias |-> FALSE, val |-> val]

SharedList == [alias |-> TRUE, val |-> <<>>]

\* tmp: the temporary audio file of a synthesis exists on disk.
\* given: bookkeeping, the contents of the caller's history when the worker was
\* created.
STTWorker(g) ==
    [kind |-> "stt", phase |-> "started", gen |-> g, cancelled |-> FALSE, user_text |-> "",
     conv |-> OwnList(<<>>), given |-> <<>>, messages |-> <<>>, text |-> "", tmp |-> FALSE]

LLMWorker(user_text, conv, g) ==
    [kind |-> "llm", phase |-> "started", gen |-> g, cancelled |-> FALSE, user_text |-> user_text,
     conv |-> IF conv = <<>> THEN OwnList(<<>>) ELSE SharedList,
     given |-> conv, messages |-> <<>>, text |-> "", tmp |-> FALSE]

TTSWorker(text, g) ==
    [kind |-> "tts", phase |-> "started", gen |-> g, cancelled |-> FALSE, user_text |-> "",
     conv |-> OwnList(<<>>), given |-> <<>>, messages |-> <<>>, text |-> text, tmp |-> FALSE]

Event(sig, w, arg) == [sig |-> sig, w |-> w, arg |-> arg]

Queued(q, w) == \E i \in 1..Len(q) : q[i].w = w

\* QThread.isRunning() behind the `w is not None` test of _stop_all_workers
IsRunning(ws, w) == w # None /\ w \in DOMAIN ws /\ ws[w].phase # "finished"

\* a stage is in flight while its thread runs or its outcome is not yet handled
InFlight(ws, q) == {w \in DOMAIN ws : ws[w].phase # "finished" \/ Queued(q, w)}

InFlightOf(kind) == {w \in InFlight(workers, queue) : workers[w].kind = kind}

\* the table keeps the workers in flight only
Collect(ws, q) ==
    [w \in {x \in DOMAIN ws : ws[x].phase # "finished" \/ Queued(q, x)} |-> ws[w]]

Settle(ref, ws) == IF ref = None \/ ref \in DOMAIN ws THEN ref ELSE Done

\* the three fields after a handler, and the table that goes with them
Bind(ws, q, s, l, t) ==
    LET live == Collect(ws, q) IN
    /\ workers' = live
    /\ stt_worker' = Settle(s, live)
    /\ llm_worker' = Settle(l, live)
    /\ tts_worker' = Settle(t, live)

NewId(ws) == CHOOSE i \in WorkerIds : i \notin DOMAIN ws /\ \A j \in 1..(i - 1) : j \in DOMAIN ws

Put(ws, id, w) == [x \in DOMAIN ws \cup {id} |-> IF x = id THEN w ELSE ws[x]]

\* ------------------------------------------------------------- session
SessionState ==
    IF ~visible THEN "Idle"
    ELSE IF status.tone = ERROR_COLOR THEN "ErrorCooldown"
    ELSE IF status.msg \in {MSG_LISTENING, MSG_SPEAK_NOW} THEN "Listening"
    ELSE IF status.msg = MSG_THINKING THEN "Thinking"
    ELSE IF status.msg = MSG_ANSWER THEN "Speaking"
    ELSE "Idle"

Timer(delay, g, cause) == [delay |-> delay, gen |-> g, cause |-> cause]

\* ------------------------------------------------------- configuration
\* a YAML scalar or a Python value of a setting: its type, and its number
\* (a float counts tenths) or its text
IntValue(n)   == [type |-> "int", num |-> n, text |-> ""]

FloatValue(t) == [type |-> "float", num |-> t, text |-> ""]

StrValue(x)   == [type |-> "str", num |-> 0, text |-> x]

NoneValue     == [type |-> "NoneType", num |-> 0, text |-> ""]

\* the DEFAULTS table
DefaultSettings ==
    [llm_url |-> StrValue("http://localhost:4000/v1/chat/completions"),
     llm_model |-> StrValue("openclaw"),
     llm_timeout |-> IntValue(60),
     llm_temperature |-> FloatValue(7),
     llm_max_tokens |-> IntValue(1024),
     stt_language |-> StrValue("th-TH"),
     stt_energy_threshold |-> IntValue(300),
     stt_pause_threshold |-> FloatValue(15),
     stt_phrase_time_limit |-> IntValue(30),
     tts_voice |-> StrValue("th-TH-PremwadeeNeural"),
     hotkey |-> StrValue("alt+space"),
     bar_width |-> IntValue(680),
     auto_hide_delay |-> IntValue(5000)]

EmptyDict == [k \in {} |-> NoneValue]

\* the texts int() and float() accept, among the texts a file may hold here
IntLiterals == ("7" :> 7)

FloatLiterals == ("7" :> 70) @@ ("1.5" :> 15)

Returned(v) == [raised |-> FALSE, value |-> v]

Raised == [raised |-> TRUE, value |-> NoneValue]

\* int(v): ValueError for a text that is no integer literal, TypeError for None
ToInt(v) ==
    CASE v.type = "int" -> Returned(v)
      [] v.type = "float" -> Returned(IntValue(v.num \div 10))
      [] v.type = "str" -> IF v.text \in DOMAIN IntLiterals
                           THEN Returned(IntValue(IntLiterals[v.text]))
                           ELSE Raised
      [] OTHER -> Raised

\* float(v)
ToFloat(v) ==
    CASE v.type = "int" -> Returned(FloatValue(v.num * 10))
      [] v.type = "float" -> Returned(v)
      [] v.type = "str" -> IF v.text \in DOMAIN FloatLiterals
                           THEN Returned(FloatValue(FloatLiterals[v.text]))
                           ELSE Raised
      [] OTHER -> Raised

\* str(v) never raises
ToStr(v) ==
    CASE v.type = "str" -> Returned(v)
      [] v.type = "int" -> Returned(StrValue(ToString(v.num)))
      [] v.type = "float" ->
            Returned(StrValue(ToString(v.num \div 10) \o "." \o ToString(v.num % 10)))
      [] OTHER -> Returned(StrValue("None"))

\* type(merged[k])(v)
Cast(default, v) ==
    CASE default.type = "int" -> ToInt(v)
      [] default.type = "float" -> ToFloat(v)
      [] OTHER -> ToStr(v)

\* what yaml.safe_load gives for the file: a mapping, or a document whose top
\* level is a list
Mapping(items) == [mapping |-> TRUE, items |-> items]

TopLevelList == [mapping |-> FALSE, items |-> EmptyDict]

\* config.yaml: absent, not parsable, or a document
Absent == [exists |-> FALSE, parses |-> FALSE, doc |-> Mapping(EmptyDict)]

Unparsable == [exists |-> TRUE, parses |-> FALSE, doc |-> Mapping(EmptyDict)]

Document(doc) == [exists |-> TRUE, parses |-> TRUE, doc |-> doc]

\* _load_yaml
LoadYaml(file) ==
    IF ~file.exists THEN Mapping(EmptyDict)
    ELSE IF ~file.parses THEN Mapping(EmptyDict)
    ELSE file.doc

\* the keys of overrides for which the cast raises
Uncastable(defaults, items) ==
    {k \in DOMAIN items \cap DOMAIN defaults : Cast(defaults[k], items[k]).raised}

\* _merge: a copy of defaults with the known keys of overrides cast to the type
\* of their default; overrides.items() raises for what is no mapping, and an
\* exception of the cast leaves _merge
Merge(defaults, ov) ==
    IF ~ov.mapping \/ Uncastable(defaults, ov.items) # {}
    THEN [raised |-> TRUE, merged |-> EmptyDict]
    ELSE [raised |-> FALSE,
          merged |-> [k \in DOMAIN defaults |->
                        IF k \in DOMAIN ov.items
                        THEN Cast(defaults[k], ov.items[k]).value
                        ELSE defaults[k]]]

\* the settings and values a config.yaml holds here
OverrideKeys == {"llm_timeout", "llm_temperature", "llm_model", "volume"}

OverrideValues ==
    {IntValue(5), FloatValue(15), StrValue("7"), StrValue("1.5"), StrValue("abc"),
     NoneValue}

ConfigFiles ==
    {Absent, Unparsable, Document(TopLevelList)}
    \cup {Document(Mapping(items)) :
            items \in UNION {[ks -> OverrideValues] :
                               ks \in {x \in SUBSET OverrideKeys :
                                          Cardinality(x) <= MaxOverrides}}}

\* the import of config.py, line 68: _overrides = _load_yaml()
ImportLoadYaml ==
    /\ startup = "import"
    /\ overrides' = LoadYaml(config_file)
    /\ startup' = "yaml loaded"
    /\ UNCHANGED <<config_file, DEFAULTS, CFG>>
    /\ UNCHANGED hud

\* the import of config.py, line 69: CFG = _merge(DEFAULTS, _overrides); an
\* exception here ends the import and with it the program
ImportMerge ==
    /\ startup = "yaml loaded"
    /\ LET result == Merge(DEFAULTS, overrides)
       IN IF result.raised
          THEN startup' = "crashed" /\ CFG' = CFG
          ELSE startup' = "ready" /\ CFG' = result.merged
    /\ UNCHANGED <<config_file, DEFAULTS, overrides>>
    /\ UNCHANGED hud

\* the HUD as constructed
InitHUD ==
    /\ visible = FALSE
    /\ status = SetStatus(MSG_INITIAL, SUBTLE_COLOR)
    /\ response = [text |-> "", shown |-> FALSE]
    /\ pulse = FALSE
    /\ conversation = <<>>
    /\ stt_worker = None
    /\ llm_worker = None
    /\ tts_worker = None
    /\ workers = <<>>
    /\ queue = <<>>
    /\ timers = EmptyBag
    /\ generation = 0
    /\ closed = 0
    /\ log = <<>>

\* config.py is about to be imported, with whatever config.yaml there is
InitConfig ==
    /\ config_file \in ConfigFiles
    /\ DEFAULTS = DefaultSettings
    /\ overrides = Mapping(EmptyDict)
    /\ CFG = EmptyDict
    /\ startup = "import"
    /\ InitHUD

\* the program started with no config.yaml, the HUD constructed
Init ==
    /\ config_file = Absent
    /\ DEFAULTS = DefaultSettings
    /\ overrides = LoadYaml(Absent)
    /\ CFG = Merge(DefaultSettings, LoadYaml(Absent)).merged
    /\ startup = "ready"
    /\ visible = FALSE
    /\ status = SetStatus(MSG_INITIAL, SUBTLE_COLOR)
    /\ response = [text |-> "", shown |-> FALSE]
    /\ pulse = FALSE
    /\ conversation = <<>>
    /\ stt_worker = None
    /\ llm_worker = None
    /\ tts_worker = None
    /\ workers = <<>>
    /\ queue = <<>>
    /\ timers = EmptyBag
    /\ generation = 0
    /\ closed = 0
    /\ log = <<>>

\* ------------------------------------------------------ GUI thread: API
\* _start_listening: status, pulse, a new STTWorker stored in _stt_worker and started
StartListening(g) ==
    LET id == NewId(workers) IN
    /\ status' = SetStatus(MSG_LISTENING, ACCENT_COLOR)
    /\ pulse' = TRUE
    /\ Bind(Put(workers, id, STTWorker(g)), queue, id, llm_worker, tts_worker)

\* QThread.quit() ends the thread's event loop; run() is overridden and never
\* enters one, so the thread runs on to its own end
Quit(worker) == worker

\* wait(2000) only holds the caller back; the threads' own steps are the
\* worker-thread actions below
StopAllWorkers(ws, refs) ==
    [w \in DOMAIN ws |->
        IF w \in refs /\ IsRunning(ws, w) THEN Quit(ws[w]) ELSE ws[w]]

\* bookkeeping: the stages that were in flight when deactivate() was called
MarkCancelled(ws) == [w \in DOMAIN ws |-> [ws[w] EXCEPT !.cancelled = TRUE]]

\* a slip: deactivate() starts the next session from an empty history
DeactivateClears ==
    /\ workers' = MarkCancelled(StopAllWorkers(workers,
                                  {stt_worker, llm_worker, tts_worker}))
    /\ closed' = generation
    /\ visible' = FALSE
    /\ conversation' = <<>>
    /\ UNCHANGED <<status, response, pulse, stt_worker, llm_worker,
                   tts_worker, queue, timers, generation, log>>

\* a slip: deactivate() flips the visibility as toggle() does
HideFlips(v) == ~v

Hide(v) == FALSE

Activate(limit) ==
    /\ generation < limit
    /\ response' = SetCollapsed
    /\ visible' = TRUE
    /\ generation' = generation + 1
    /\ StartListening(generation + 1)
    /\ UNCHANGED <<conversation, queue, timers, log, closed>>

Deactivate ==
    /\ workers' = MarkCancelled(StopAllWorkers(workers,
                                  {stt_worker, llm_worker, tts_worker}))
    /\ closed' = generation
    /\ visible' = Hide(visible)
    /\ UNCHANGED <<status, response, pulse, conversation, stt_worker, llm_worker,
                   tts_worker, queue, timers, generation, log>>

\* a slip: toggle() dismisses whatever the visibility
ToggleDeactivates(limit) == Deactivate

Toggle(limit) ==
    \/ visible /\ Deactivate
    \/ ~visible /\ Activate(limit)

\* ----------------------------------------------- GUI thread: resume timer
\* a slip: the timer is a repeating one, and goes on while the overlay is hidden
ResumeListeningRepeats ==
    \E t \in BagToSet(timers) :
        IF ~visible
        THEN UNCHANGED <<visible, status, response, pulse, conversation,
                         stt_worker, llm_worker, tts_worker, workers, queue,
                         timers, generation, log, closed>>
        ELSE /\ timers' = timers (-) SetToBag({t})
             /\ response' = SetCollapsed
             /\ StartListening(t.gen)
             /\ UNCHANGED <<visible, conversation, queue, generation, log, closed>>

\* a slip: the resume does not look at the visibility
ResumeListeningAlways ==
    \E t \in BagToSet(timers) :
        /\ timers' = timers (-) SetToBag({t})
        /\ response' = SetCollapsed
        /\ StartListening(t.gen)
        /\ UNCHANGED <<visible, conversation, queue, generation, log, closed>>

\* a single-shot timer expires and the event loop calls _resume_listening
ResumeListening ==
    \E t \in BagToSet(timers) :
        /\ timers' = timers (-) SetToBag({t})
        /\ IF ~visible
           THEN UNCHANGED <<visible, status, response, pulse, conversation,
                            stt_worker, llm_worker, tts_worker, workers, queue,
                            generation, log, closed>>
           ELSE /\ response' = SetCollapsed
                /\ StartListening(t.gen)
                /\ UNCHANGED <<visible, conversation, queue, generation, log, closed>>

\* ------------------------------------------------------- worker threads
Emit(w, phase, sig, arg) ==
    /\ workers' = [workers EXCEPT ![w].phase = phase]
    /\ queue' = Append(queue, Event(sig, w, arg))
    /\ UNCHANGED <<visible, status, response, pulse, conversation, stt_worker,
                   llm_worker, tts_worker, timers, generation, log, closed>>

\* STTWorker.run: ambient calibration done, listening_started emitted
SttListeningStarted(w) ==
    /\ workers[w].kind = "stt" /\ workers[w].phase = "started"
    /\ Emit(w, "listening", "listening_started", "")

\* STTWorker.run: recognize_google returned the text
SttResult(w, text) ==
    /\ workers[w].kind = "stt" /\ workers[w].phase = "listening"
    /\ Emit(w, "finished", "stt_result", text)

\* STTWorker.run: OSError around the microphone, or a recognition failure
SttError(w, msg) ==
    /\ workers[w].kind = "stt"
    /\ \/ msg = "no microphone" /\ workers[w].phase \in {"started", "listening"}
       \/ msg # "no microphone" /\ workers[w].phase = "listening"
    /\ Emit(w, "finished", "stt_error", msg)

\* STTWorker.run: an exception that is neither OSError around the microphone
\* (sr.Microphone() without PyAudio raises AttributeError) nor UnknownValueError
\* or RequestError from the recogniser leaves run(): the thread ends and no
\* signal is emitted
SttCrash(w) ==
    /\ workers[w].kind = "stt" /\ workers[w].phase \in {"started", "listening"}
    /\ Bind([workers EXCEPT ![w].phase = "finished"], queue,
            stt_worker, llm_worker, tts_worker)
    /\ UNCHANGED <<visible, status, response, pulse, conversation, queue, timers,
                   generation, log, closed>>

\* the list object self.conversation refers to, as it is now
Given(w) == IF workers[w].conv.alias THEN conversation ELSE workers[w].conv.val

\* a slip: the new user turn is left out of the request
BuildMessagesNoUserTurn(w) == Given(w)

\* LLMWorker.run: messages = list(self.conversation) + [user turn]
BuildMessages(w) == Append(Given(w), Turn("user", workers[w].user_text))

LlmRun(w) ==
    /\ workers[w].kind = "llm" /\ workers[w].phase = "started"
    /\ workers' = [workers EXCEPT ![w].phase = "requesting",
                                  ![w].messages = BuildMessages(w),
                                  ![w].conv = OwnList(<<>>),
                                  ![w].given = <<>>]
    /\ UNCHANGED <<visible, status, response, pulse, conversation, stt_worker,
                   llm_worker, tts_worker, queue, timers, generation, log, closed>>

\* the content of the endpoint's answer: a body with or without white space
\* around it
Content(body) == {[lead |-> l, body |-> body, trail |-> t] : l, t \in BOOLEAN}

\* str.strip()
Strip(content) == content.body

\* LLMWorker.run: the endpoint answered; finished carries the stripped content
LlmFinished(w, content) ==
    /\ workers[w].kind = "llm" /\ workers[w].phase = "requesting"
    /\ Emit(w, "finished", "llm_finished", Strip(content))

LlmError(w, msg) ==
    /\ workers[w].kind = "llm" /\ workers[w].phase = "requesting"
    /\ Emit(w, "finished", "llm_error", msg)

\* _synthesize_and_play: NamedTemporaryFile(suffix=".mp3", delete=False)
TtsCreateTemp(w) ==
    /\ workers[w].kind = "tts" /\ workers[w].phase = "started"
    /\ workers' = [workers EXCEPT ![w].phase = "synthesizing", ![w].tmp = TRUE]
    /\ UNCHANGED <<visible, status, response, pulse, conversation, stt_worker,
                   llm_worker, tts_worker, queue, timers, generation, log, closed>>

\* _synthesize_and_play: communicate.save(tmp_path) returned
TtsSaved(w) ==
    /\ workers[w].kind = "tts" /\ workers[w].phase = "synthesizing"
    /\ workers' = [workers EXCEPT ![w].phase = "playing"]
    /\ UNCHANGED <<visible, status, response, pulse, conversation, stt_worker,
                   llm_worker, tts_worker, queue, timers, generation, log, closed>>

\* a slip: the file is left behind
UnlinkSkipped(worker) == worker

\* the finally block: os.unlink(tmp_path) if the file exists
Unlink(worker) == [worker EXCEPT !.tmp = FALSE]

\* the end of TTSWorker.run: the finally block has run, one signal is emitted
TtsEnd(w, sig, arg) ==
    /\ workers' = [workers EXCEPT ![w] = [Unlink(@) EXCEPT !.phase = "finished"]]
    /\ queue' = Append(queue, Event(sig, w, arg))
    /\ UNCHANGED <<visible, status, response, pulse, conversation, stt_worker,
                   llm_worker, tts_worker, timers, generation, log, closed>>

\* TTSWorker.run: synthesis and playback went through. The class attribute
\* `finished` is the signal the HUD connects to; it is emitted here only
TtsFinished(w) ==
    /\ workers[w].kind = "tts" /\ workers[w].phase = "playing"
    /\ TtsEnd(w, "tts_finished", "")

\* TTSWorker.run: the temporary file could not be made, the synthesis failed,
\* or afplay failed
TtsError(w, msg) ==
    /\ workers[w].kind = "tts"
    /\ \/ workers[w].phase = "started" /\ msg = "TTS Error: temp file"
       \/ workers[w].phase = "synthesizing" /\ msg = "TTS Error: synthesis"
       \/ workers[w].phase = "playing" /\ msg = "TTS Error: afplay"
    /\ TtsEnd(w, "tts_error", msg)

\* ------------------------------------------- GUI thread: signal handlers
\* the event loop takes the oldest posted signal and calls the connected slot
Head1 == Head(queue)

Delivered(sig) == queue # <<>> /\ Head1.sig = sig

\* a handler that starts no stage: the signal is consumed, the fields stay
Consume ==
    /\ queue' = Tail(queue)
    /\ Bind(workers, Tail(queue), stt_worker, llm_worker, tts_worker)

Schedule(delay, g, cause) == timers (+) SetToBag({Timer(delay, g, cause)})

OnListeningStarted ==
    /\ Delivered("listening_started")
    /\ status' = SetStatus(MSG_SPEAK_NOW, ACCENT_COLOR)
    /\ Consume
    /\ UNCHANGED <<visible, response, pulse, conversation, timers, generation, log, closed>>

\* _on_stt_result, with the _send_to_llm it calls: the transcript shown by the
\* first is replaced by the status of the second before the handler returns
OnSttResult ==
    /\ Delivered("stt_result")
    /\ LET id == NewId(Collect(workers, Tail(queue)))
           g  == workers[Head1.w].gen
       IN /\ pulse' = FALSE
          /\ status' = SetStatus(MSG_THINKING, ACCENT_COLOR)
          /\ queue' = Tail(queue)
          /\ Bind(Put(Collect(workers, Tail(queue)), id,
                      LLMWorker(Head1.arg, conversation, g)),
                  Tail(queue), stt_worker, id, tts_worker)
    /\ UNCHANGED <<visible, response, conversation, timers, generation, log, closed>>

OnSttError ==
    /\ Delivered("stt_error")
    /\ pulse' = FALSE
    /\ status' = SetStatus(Head1.arg, ERROR_COLOR)
    /\ timers' = Schedule(STT_ERROR_DELAY, workers[Head1.w].gen, "stt_error")
    /\ Consume
    /\ UNCHANGED <<visible, response, conversation, generation, log, closed>>

\* the list object a not yet started LLMWorker shares with the HUD stays as it was
\* left when the HUD rebinds _conversation to the slice
Rebind(ws, old, new) ==
    [w \in DOMAIN ws |->
        IF ws[w].conv.alias /\ new # old
        THEN [ws[w] EXCEPT !.conv = OwnList(old)]
        ELSE ws[w]]

\* a slip: the handler takes the text of the latest inference worker
LatestUserText(w) ==
    IF llm_worker \in DOMAIN workers THEN workers[llm_worker].user_text
    ELSE workers[w].user_text

\* the user_text bound by the lambda connected to the finished signal of worker
\* w: the argument of the _send_to_llm call that made w
BoundUserText(w) == workers[w].user_text

\* _on_llm_reply, with the _speak it calls
OnLlmReply ==
    /\ Delivered("llm_finished")
    /\ LET id        == NewId(Collect(workers, Tail(queue)))
           g         == workers[Head1.w].gen
           user_text == BoundUserText(Head1.w)
           reply     == Head1.arg
           appended  == AppendPair(conversation, user_text, reply)
       IN /\ conversation' = CapHistory(appended)
          /\ log' = AppendPair(log, user_text, reply)
          /\ status' = SetStatus(MSG_ANSWER, TEXT_COLOR)
          /\ response' = SetExpanded(reply)
          /\ queue' = Tail(queue)
          /\ Bind(Put(Rebind(Collect(workers, Tail(queue)), appended,
                             CapHistory(appended)),
                      id, TTSWorker(reply, g)),
                  Tail(queue), stt_worker, llm_worker, id)
    /\ UNCHANGED <<visible, pulse, timers, generation, closed>>

\* a slip: the failed inference records the user's text
OnLlmErrorRecords ==
    /\ Delivered("llm_error")
    /\ conversation' = Append(conversation, Turn("user", workers[Head1.w].user_text))
    /\ status' = SetStatus(Head1.arg, ERROR_COLOR)
    /\ timers' = Schedule(LLM_ERROR_DELAY, workers[Head1.w].gen, "llm_error")
    /\ Consume
    /\ UNCHANGED <<visible, response, pulse, generation, log, closed>>

\* a slip: the inference failure is shown and nothing is scheduled
OnLlmErrorNoResume ==
    /\ Delivered("llm_error")
    /\ status' = SetStatus(Head1.arg, ERROR_COLOR)
    /\ Consume
    /\ UNCHANGED <<visible, response, pulse, conversation, timers, generation, log, closed>>

OnLlmError ==
    /\ Delivered("llm_error")
    /\ status' = SetStatus(Head1.arg, ERROR_COLOR)
    /\ timers' = Schedule(LLM_ERROR_DELAY, workers[Head1.w].gen, "llm_error")
    /\ Consume
    /\ UNCHANGED <<visible, response, pulse, conversation, generation, log, closed>>

\* a slip: the resume after speaking is forgotten
OnTtsDoneNoResume ==
    /\ Delivered("tts_finished")
    /\ Consume
    /\ UNCHANGED <<visible, status, response, pulse, conversation, timers,
                   generation, log, closed>>

OnTtsDone ==
    /\ Delivered("tts_finished")
    /\ timers' = Schedule(TTS_RESUME_DELAY, workers[Head1.w].gen, "tts_finished")
    /\ Consume
    /\ UNCHANGED <<visible, status, response, pulse, conversation, generation, log, closed>>

\* a slip: the synthesis failure is handled like a capture failure
OnTtsErrorShown ==
    /\ Delivered("tts_error")
    /\ status' = SetStatus(Head1.arg, ERROR_COLOR)
    /\ timers' = Schedule(STT_ERROR_DELAY, workers[Head1.w].gen, "tts_error")
    /\ Consume
    /\ UNCHANGED <<visible, response, pulse, conversation, generation, log, closed>>

\* _on_tts_error: the message is logged only
OnTtsError ==
    /\ Delivered("tts_error")
    /\ timers' = Schedule(TTS_RESUME_DELAY, workers[Head1.w].gen, "tts_error")
    /\ Consume
    /\ UNCHANGED <<visible, status, response, pulse, conversation, generation, log, closed>>

\* --------------------------------------------------------- environment
UserTexts == {"hello", "what time is it"}

\* what the endpoint answers to a request
Reply(user_text) == IF user_text = "hello" THEN "hi there" ELSE "X"

\* utterances recognised and not yet turned into a recorded round or a failure
Pending ==
    Cardinality({w \in DOMAIN workers : workers[w].kind = "llm"
                                         /\ (workers[w].phase # "finished" \/ Queued(queue, w))})
    + Cardinality({i \in 1..Len(queue) : queue[i].sig = "stt_result"})

Rounds == Len(log) \div 2

CountedText == ToString(Rounds + 1)

EchoReply(user_text) == "re " \o user_text

Next ==
    \/ Activate(MaxActivations) /\ UNCHANGED config
    \/ Deactivate /\ UNCHANGED config
    \/ Toggle(MaxActivations) /\ UNCHANGED config
    \/ ResumeListening /\ UNCHANGED config
    \/ OnListeningStarted /\ UNCHANGED config
    \/ OnSttResult /\ UNCHANGED config
    \/ OnSttError /\ UNCHANGED config
    \/ OnLlmReply /\ UNCHANGED config
    \/ OnLlmError /\ UNCHANGED config
    \/ OnTtsDone /\ UNCHANGED config
    \/ OnTtsError /\ UNCHANGED config
    \/ \E w \in DOMAIN workers : SttListeningStarted(w) /\ UNCHANGED config
    \/ \E w \in DOMAIN workers, text \in UserTexts :
            Rounds + Pending < MaxRounds /\ SttResult(w, text) /\ UNCHANGED config
    \/ \E w \in DOMAIN workers, msg \in STT_ERRORS : SttError(w, msg) /\ UNCHANGED config
    \/ \E w \in DOMAIN workers : SttCrash(w) /\ UNCHANGED config
    \/ \E w \in DOMAIN workers : LlmRun(w) /\ UNCHANGED config
    \/ \E w \in DOMAIN workers :
            \E content \in Content(Reply(workers[w].user_text)) : LlmFinished(w, content) /\ UNCHANGED config
    \/ \E w \in DOMAIN workers, msg \in LLM_ERRORS : LlmError(w, msg) /\ UNCHANGED config
    \/ \E w \in DOMAIN workers : TtsCreateTemp(w) /\ UNCHANGED config
    \/ \E w \in DOMAIN workers : TtsSaved(w) /\ UNCHANGED config
    \/ \E w \in DOMAIN workers : TtsFinished(w) /\ UNCHANGED config
    \/ \E w \in DOMAIN workers, msg \in TTS_ERRORS : TtsError(w, msg) /\ UNCHANGED config

\* the same program with two activations
NextSessions ==
    \/ Activate(MaxSessions) /\ UNCHANGED config
    \/ Deactivate /\ UNCHANGED config
    \/ Toggle(MaxSessions) /\ UNCHANGED config
    \/ ResumeListening /\ UNCHANGED config
    \/ OnListeningStarted /\ UNCHANGED config
    \/ OnSttResult /\ UNCHANGED config
    \/ OnSttError /\ UNCHANGED config
    \/ OnLlmReply /\ UNCHANGED config
    \/ OnLlmError /\ UNCHANGED config
    \/ OnTtsDone /\ UNCHANGED config
    \/ OnTtsError /\ UNCHANGED config
    \/ \E w \in DOMAIN workers : SttListeningStarted(w) /\ UNCHANGED config
    \/ \E w \in DOMAIN workers, text \in UserTexts :
            Rounds + Pending < MaxSessionRounds /\ SttResult(w, text) /\ UNCHANGED config
    \/ \E w \in DOMAIN workers, msg \in STT_ERRORS : SttError(w, msg) /\ UNCHANGED config
    \/ \E w \in DOMAIN workers : SttCrash(w) /\ UNCHANGED config
    \/ \E w \in DOMAIN workers : LlmRun(w) /\ UNCHANGED config
    \/ \E w \in DOMAIN workers :
            \E content \in Content(Reply(workers[w].user_text)) : LlmFinished(w, content) /\ UNCHANGED config
    \/ \E w \in DOMAIN workers, msg \in LLM_ERRORS : LlmError(w, msg) /\ UNCHANGED config
    \/ \E w \in DOMAIN workers : TtsCreateTemp(w) /\ UNCHANGED config
    \/ \E w \in DOMAIN workers : TtsSaved(w) /\ UNCHANGED config
    \/ \E w \in DOMAIN workers : TtsFinished(w) /\ UNCHANGED config
    \/ \E w \in DOMAIN workers, msg \in TTS_ERRORS : TtsError(w, msg) /\ UNCHANGED config

\* the same program over a long conversation: the user counts aloud, saying the
\* next number once the last one was answered or failed, and the endpoint echoes,
\* so that every turn of the history differs from every other
NextCap ==
    \/ Activate(MaxActivations) /\ UNCHANGED config
    \/ Deactivate /\ UNCHANGED config
    \/ Toggle(MaxActivations) /\ UNCHANGED config
    \/ ResumeListening /\ UNCHANGED config
    \/ OnListeningStarted /\ UNCHANGED config
    \/ OnSttResult /\ UNCHANGED config
    \/ OnSttError /\ UNCHANGED config
    \/ OnLlmReply /\ UNCHANGED config
    \/ OnLlmError /\ UNCHANGED config
    \/ OnTtsDone /\ UNCHANGED config
    \/ OnTtsError /\ UNCHANGED config
    \/ \E w \in DOMAIN workers : SttListeningStarted(w) /\ UNCHANGED config
    \/ \E w \in DOMAIN workers :
            Pending = 0 /\ Rounds < CapRounds /\ SttResult(w, CountedText) /\ UNCHANGED config
    \/ \E w \in DOMAIN workers, msg \in STT_ERRORS : SttError(w, msg) /\ UNCHANGED config
    \/ \E w \in DOMAIN workers : SttCrash(w) /\ UNCHANGED config
    \/ \E w \in DOMAIN workers : LlmRun(w) /\ UNCHANGED config
    \/ \E w \in DOMAIN workers :
            \E content \in Content(EchoReply(workers[w].user_text)) :
                LlmFinished(w, content) /\ UNCHANGED config
    \/ \E w \in DOMAIN workers, msg \in LLM_ERRORS : LlmError(w, msg) /\ UNCHANGED config
    \/ \E w \in DOMAIN workers : TtsCreateTemp(w) /\ UNCHANGED config
    \/ \E w \in DOMAIN workers : TtsSaved(w) /\ UNCHANGED config
    \/ \E w \in DOMAIN workers : TtsFinished(w) /\ UNCHANGED config
    \/ \E w \in DOMAIN workers, msg \in TTS_ERRORS : TtsError(w, msg) /\ UNCHANGED config

Spec == Init /\ [][Next]_vars

SpecSessions == Init /\ [][NextSessions]_vars

SpecCap == Init /\ [][NextCap]_vars

\* the user counts on, whether or not the last number was answered
NextCountedText == ToString(Rounds + Pending + 1)

\* the program with capture stages side by side (activate() called on an active
\* overlay), every stage succeeding and the endpoint echoing: inference workers
\* overlap, and no two of them carry the same text
NextOverlap ==
    \/ Activate(MaxOverlap) /\ UNCHANGED config
    \/ ResumeListening /\ UNCHANGED config
    \/ OnListeningStarted /\ UNCHANGED config
    \/ OnSttResult /\ UNCHANGED config
    \/ OnLlmReply /\ UNCHANGED config
    \/ OnTtsDone /\ UNCHANGED config
    \/ \E w \in DOMAIN workers : SttListeningStarted(w) /\ UNCHANGED config
    \/ \E w \in DOMAIN workers :
            /\ Rounds + Pending < MaxOverlapRounds
            /\ SttResult(w, NextCountedText) /\ UNCHANGED config
    \/ \E w \in DOMAIN workers : LlmRun(w) /\ UNCHANGED config
    \/ \E w \in DOMAIN workers :
            \E content \in Content(EchoReply(workers[w].user_text)) :
                LlmFinished(w, content) /\ UNCHANGED config
    \/ \E w \in DOMAIN workers : TtsCreateTemp(w) /\ UNCHANGED config
    \/ \E w \in DOMAIN workers : TtsSaved(w) /\ UNCHANGED config
    \/ \E w \in DOMAIN workers : TtsFinished(w) /\ UNCHANGED config

SpecOverlap == Init /\ [][NextOverlap]_vars

\* the program dismissed and brought back, every stage succeeding, the user
\* counting aloud as in SpecCap and the endpoint echoing: what one activation
\* recorded is told from what the next one says
NextHistory ==
    \/ Activate(MaxHistorySessions) /\ UNCHANGED config
    \/ Deactivate /\ UNCHANGED config
    \/ Toggle(MaxHistorySessions) /\ UNCHANGED config
    \/ ResumeListening /\ UNCHANGED config
    \/ OnListeningStarted /\ UNCHANGED config
    \/ OnSttResult /\ UNCHANGED config
    \/ OnLlmReply /\ UNCHANGED config
    \/ OnTtsDone /\ UNCHANGED config
    \/ \E w \in DOMAIN workers : SttListeningStarted(w) /\ UNCHANGED config
    \/ \E w \in DOMAIN workers :
            /\ Pending = 0 /\ Rounds < MaxHistoryRounds
            /\ SttResult(w, CountedText) /\ UNCHANGED config
    \/ \E w \in DOMAIN workers : LlmRun(w) /\ UNCHANGED config
    \/ \E w \in DOMAIN workers :
            \E content \in Content(EchoReply(workers[w].user_text)) :
                LlmFinished(w, content) /\ UNCHANGED config
    \/ \E w \in DOMAIN workers : TtsCreateTemp(w) /\ UNCHANGED config
    \/ \E w \in DOMAIN workers : TtsSaved(w) /\ UNCHANGED config
    \/ \E w \in DOMAIN workers : TtsFinished(w) /\ UNCHANGED config

SpecHistory == Init /\ [][NextHistory]_vars

\* the start of the program: config.py is imported
NextConfig ==
    \/ ImportLoadYaml
    \/ ImportMerge

SpecConfig == InitConfig /\ [][NextConfig]_vars

\* the GUI thread's event loop calls the slot of the oldest posted signal
Handle ==
    \/ OnListeningStarted
    \/ OnSttResult
    \/ OnSttError
    \/ OnLlmReply
    \/ OnLlmError
    \/ OnTtsDone
    \/ OnTtsError

\* the program while the overlay stays active: nobody dismisses it
NextLive ==
    \/ Activate(MaxActivations) /\ UNCHANGED config
    \/ ResumeListening /\ UNCHANGED config
    \/ OnListeningStarted /\ UNCHANGED config
    \/ OnSttResult /\ UNCHANGED config
    \/ OnSttError /\ UNCHANGED config
    \/ OnLlmReply /\ UNCHANGED config
    \/ OnLlmError /\ UNCHANGED config
    \/ OnTtsDone /\ UNCHANGED config
    \/ OnTtsError /\ UNCHANGED config
    \/ \E w \in DOMAIN workers : SttListeningStarted(w) /\ UNCHANGED config
    \/ \E w \in DOMAIN workers, text \in UserTexts :
            Rounds + Pending < MaxRounds /\ SttResult(w, text) /\ UNCHANGED config
    \/ \E w \in DOMAIN workers, msg \in STT_ERRORS : SttError(w, msg) /\ UNCHANGED config
    \/ \E w \in DOMAIN workers : SttCrash(w) /\ UNCHANGED config
    \/ \E w \in DOMAIN workers : LlmRun(w) /\ UNCHANGED config
    \/ \E w \in DOMAIN workers :
            \E content \in Content(Reply(workers[w].user_text)) : LlmFinished(w, content) /\ UNCHANGED config
    \/ \E w \in DOMAIN workers, msg \in LLM_ERRORS : LlmError(w, msg) /\ UNCHANGED config
    \/ \E w \in DOMAIN workers : TtsCreateTemp(w) /\ UNCHANGED config
    \/ \E w \in DOMAIN workers : TtsSaved(w) /\ UNCHANGED config
    \/ \E w \in DOMAIN workers : TtsFinished(w) /\ UNCHANGED config
    \/ \E w \in DOMAIN workers, msg \in TTS_ERRORS : TtsError(w, msg) /\ UNCHANGED config

\* the event loop keeps running: a posted signal is handled, a timer that was
\* set expires
SpecLive ==
    /\ Init /\ [][NextLive]_vars
    /\ WF_vars(Handle /\ UNCHANGED config)
    /\ WF_vars(ResumeListening /\ UNCHANGED config)

\* a started stage goes on to its outcome: run() of no worker dies or hangs
Deliver ==
    \E w \in DOMAIN workers :
        \/ SttListeningStarted(w)
        \/ Pending = 0 /\ Rounds < MaxQuietRounds /\ SttResult(w, CountedText)
        \/ \E msg \in STT_ERRORS : SttError(w, msg)
        \/ LlmRun(w)
        \/ \E content \in Content(EchoReply(workers[w].user_text)) :
                LlmFinished(w, content)
        \/ \E msg \in LLM_ERRORS : LlmError(w, msg)
        \/ TtsCreateTemp(w)
        \/ TtsSaved(w)
        \/ TtsFinished(w)
        \/ \E msg \in TTS_ERRORS : TtsError(w, msg)

\* the program with its overlay dismissed at any moment, the user counting aloud
\* as in SpecCap and the endpoint echoing
NextQuiet ==
    \/ Activate(MaxQuietActivations) /\ UNCHANGED config
    \/ Deactivate /\ UNCHANGED config
    \/ Toggle(MaxQuietActivations) /\ UNCHANGED config
    \/ ResumeListening /\ UNCHANGED config
    \/ OnListeningStarted /\ UNCHANGED config
    \/ OnSttResult /\ UNCHANGED config
    \/ OnSttError /\ UNCHANGED config
    \/ OnLlmReply /\ UNCHANGED config
    \/ OnLlmError /\ UNCHANGED config
    \/ OnTtsDone /\ UNCHANGED config
    \/ OnTtsError /\ UNCHANGED config
    \/ \E w \in DOMAIN workers : SttListeningStarted(w) /\ UNCHANGED config
    \/ \E w \in DOMAIN workers :
            Pending = 0 /\ Rounds < MaxQuietRounds /\ SttResult(w, CountedText) /\ UNCHANGED config
    \/ \E w \in DOMAIN workers, msg \in STT_ERRORS : SttError(w, msg) /\ UNCHANGED config
    \/ \E w \in DOMAIN workers : LlmRun(w) /\ UNCHANGED config
    \/ \E w \in DOMAIN workers :
            \E content \in Content(EchoReply(workers[w].user_text)) :
                LlmFinished(w, content) /\ UNCHANGED config
    \/ \E w \in DOMAIN workers, msg \in LLM_ERRORS : LlmError(w, msg) /\ UNCHANGED config
    \/ \E w \in DOMAIN workers : TtsCreateTemp(w) /\ UNCHANGED config
    \/ \E w \in DOMAIN workers : TtsSaved(w) /\ UNCHANGED config
    \/ \E w \in DOMAIN workers : TtsFinished(w) /\ UNCHANGED config
    \/ \E w \in DOMAIN workers, msg \in TTS_ERRORS : TtsError(w, msg) /\ UNCHANGED config

\* the event loop keeps running, every started stage delivers its outcome and
\* every timer fires
SpecQuiet ==
    /\ Init /\ [][NextQuiet]_vars
    /\ WF_vars(Handle /\ UNCHANGED config)
    /\ WF_vars(ResumeListening /\ UNCHANGED config)
    /\ WF_vars(Deliver /\ UNCHANGED config)

\* ================================================================ claims
Min2(a, b) == IF a < b THEN a ELSE b

LastOf(seq, n) == SubSeq(seq, Len(seq) - n + 1, Len(seq))

\* C1: after N rounds handled by _on_llm_reply the history holds min(2N, 40)
\* turns, and they are the most recent turns ever recorded, in the order they
\* were recorded.
C1_HistoryCap ==
    /\ Len(log) = 2 * Rounds
    /\ Len(conversation) = Min2(2 * Rounds, HISTORY_CAP)
    /\ conversation = LastOf(log, Len(conversation))

\* the oldest pair has been dropped: 21 rounds or more, 40 turns kept
C1_Witness ==
    /\ Rounds > HISTORY_CAP \div 2
    /\ Len(conversation) = HISTORY_CAP
    /\ conversation[1] # log[1]

\* C2: the history length is even, a user turn sits at every index 2k and an
\* assistant turn at every index 2k+1 (counted from 0), also once old turns
\* were dropped.
C2_Pairing ==
    /\ Len(conversation) % 2 = 0
    /\ \A i \in 1..Len(conversation) :
          conversation[i].role = IF i % 2 = 1 THEN "user" ELSE "assistant"

\* two truncations have happened and the history still starts with a user turn
C2_Witness ==
    /\ Len(log) >= HISTORY_CAP + 4
    /\ Len(conversation) = HISTORY_CAP
    /\ conversation[1].role = "user"
    /\ conversation[HISTORY_CAP].role = "assistant"

\* ---------------------------------------------- steps, as the claims see them
\* the GUI thread handles the oldest posted signal
HandlerStep == queue # <<>> /\ queue' = Tail(queue)

\* the GUI thread handles the terminal outcome of a stage
OutcomeStep == HandlerStep /\ Head1.sig # "listening_started"

\* a worker thread posts a signal or moves on
Posts == Len(queue') = Len(queue) + 1

\* the resume timer t expires
Fires(t) == t \in BagToSet(timers) /\ timers' = timers (-) SetToBag({t})

ActivateStep == generation' = generation + 1

\* a stage of this kind is started in this step
StageStarted(kind) ==
    \E w \in DOMAIN workers' :
        /\ workers'[w].kind = kind
        /\ workers'[w].phase = "started"
        /\ ~(w \in DOMAIN workers /\ workers[w].phase = "started")

AnyStageStarted == \E kind \in {"stt", "llm", "tts"} : StageStarted(kind)

\* generation g was the current one when deactivate() was called, and an
\* activate() has followed since
Stale(g) == g = closed /\ closed < generation

\* C3: an inference that was in flight when deactivate() was called and later
\* completes successfully leaves the length of the history as it was.
C3_NoPartialMutation ==
    [][(OnLlmReply /\ workers[Head1.w].cancelled)
          => Len(conversation') = Len(conversation)]_vars

\* C4: after activate, deactivate, activate, a completion or a resume timer of
\* the first generation changes nothing of the second: no state, no UI, no
\* history, no stage started.
C4_StaleDiscarded ==
    [][((OutcomeStep /\ Stale(workers[Head1.w].gen))
         \/ (\E t \in BagToSet(timers) : Stale(t.gen) /\ Fires(t)))
          => (/\ UNCHANGED <<visible, status, response, pulse, conversation>>
              /\ SessionState' = SessionState
              /\ ~AnyStageStarted)]_vars

\* C5: activate from Idle, capture success "hello", inference success
\* "hi there", synthesis success and the 500 ms timer take the session through
\* Idle, Listening, Thinking, Speaking, Listening, each step starting the next
\* stage by itself, and leave the history [(user, hello), (assistant, hi there)].
C5_SelfDrivingLoop ==
    [][/\ (ActivateStep /\ SessionState = "Idle")
            => (SessionState' = "Listening" /\ StageStarted("stt"))
       /\ (OnSttResult /\ SessionState = "Listening")
            => (SessionState' = "Thinking" /\ StageStarted("llm"))
       /\ (OnLlmReply /\ SessionState = "Thinking")
            => (/\ SessionState' = "Speaking"
                /\ StageStarted("tts")
                /\ (conversation = <<>> /\ workers[Head1.w].user_text = "hello"
                        /\ Head1.arg = "hi there")
                     => conversation' = <<Turn("user", "hello"),
                                          Turn("assistant", "hi there")>>)
       /\ (OnTtsDone /\ SessionState = "Speaking")
            => (/\ SessionState' = "Speaking"
                /\ timers' = Schedule(TTS_RESUME_DELAY, workers[Head1.w].gen,
                                      "tts_finished")
                /\ ~AnyStageStarted)
       /\ (ResumeListening /\ SessionState = "Speaking")
            => (/\ SessionState' = "Listening"
                /\ StageStarted("stt")
                /\ conversation' = conversation)
       /\ Posts => SessionState' = SessionState]_vars

\* one activation, no deactivation, the loop has gone round once and listens again
C5_Witness ==
    /\ generation = 1 /\ closed = 0
    /\ conversation = <<Turn("user", "hello"), Turn("assistant", "hi there")>>
    /\ SessionState = "Listening"
    /\ timers = EmptyBag
    /\ InFlightOf("stt") # {}
    /\ InFlightOf("llm") = {} /\ InFlightOf("tts") = {}

\* the reply every synthesis stage speaks is recorded in the history, after its
\* user turn
TtsRecorded ==
    \A w \in DOMAIN workers :
        workers[w].kind = "tts"
          => \E i \in 1..Len(log) :
                /\ i % 2 = 0
                /\ log[i] = Turn("assistant", workers[w].text)
                /\ log[i - 1].role = "user"

\* C6: a synthesis failure leaves the expanded reply and the history
\* as they are, the pair being recorded as for a success, and schedules the same
\* one 500 ms resume as a success; that resume takes a visible overlay back to
\* Listening.
C6_SynthesisFailureNonFatal ==
    [][/\ OnTtsError
            => (/\ UNCHANGED <<visible, response, pulse, conversation, log>>
                /\ timers' = Schedule(TTS_RESUME_DELAY, workers[Head1.w].gen,
                                      "tts_error")
                /\ ~AnyStageStarted)
       /\ (OnTtsDone \/ OnTtsError)
            => (/\ TtsRecorded
                /\ BagCardinality(timers') = BagCardinality(timers) + 1
                /\ \A t \in BagToSet(timers') :
                      CopiesIn(t, timers') > CopiesIn(t, timers)
                        => t.delay = TTS_RESUME_DELAY)
       /\ \A t \in BagToSet(timers) :
            (t.cause = "tts_error" /\ Fires(t) /\ visible)
               => (SessionState' = "Listening" /\ StageStarted("stt"))]_vars

\* the synthesis of "X" failed, the reply is still shown and the resume is pending
C6_Witness ==
    /\ \E t \in BagToSet(timers) : t.cause = "tts_error" /\ t.delay = TTS_RESUME_DELAY
    /\ visible
    /\ SessionState = "Speaking"
    /\ response = SetExpanded("X")
    /\ conversation # <<>>
    /\ conversation[Len(conversation)] = Turn("assistant", "X")

\* C7: activate() while the overlay is active starts no capture stage and
\* changes neither the session state nor the UI.
C7_ActivateNoOpWhenActive ==
    [][(ActivateStep /\ SessionState # "Idle")
          => (/\ ~StageStarted("stt")
              /\ SessionState' = SessionState
              /\ UNCHANGED <<visible, status, response, pulse>>)]_vars

\* C8: at most one stage is in flight at any time, and a stage is only started
\* by the handler of the stage before it, or by activate or a resume for capture.
OneStageAtATime == Cardinality(InFlight(workers, queue)) <= 1

C8_OneStageAtATime ==
    [][/\ OneStageAtATime'
       /\ StageStarted("llm") => OnSttResult
       /\ StageStarted("tts") => OnLlmReply
       /\ StageStarted("stt") => (ActivateStep \/ ResumeListening)]_vars

\* C9: deactivate() leaves the session Idle, and the outcome of a stage that
\* was in flight at that call starts no stage and changes neither the status
\* text nor the expanded panel.
C9_NoEffectAfterDeactivate ==
    [][/\ Deactivate => SessionState' = "Idle"
       /\ (OutcomeStep /\ workers[Head1.w].cancelled /\ closed = generation)
            => (/\ ~AnyStageStarted
                /\ status' = status
                /\ response' = response)]_vars

\* C10: deactivate() leaves the session Idle, the history and the worker
\* references as they are, a second deactivate() right after it changes
\* nothing, and from Idle with nothing in flight it changes nothing at all.
C10_DeactivateIdempotent ==
    [][Deactivate
          => (/\ SessionState' = "Idle"
              /\ UNCHANGED <<conversation, stt_worker, llm_worker, tts_worker,
                             status, response, queue, timers>>
              /\ Hide(visible') = visible'
              /\ MarkCancelled(StopAllWorkers(workers',
                        {stt_worker', llm_worker', tts_worker'})) = workers'
              /\ closed' = generation'
              /\ DOMAIN workers' = DOMAIN workers
              /\ (SessionState = "Idle" /\ workers = <<>>)
                    => UNCHANGED <<visible, workers>>)]_vars

\* deactivate() was called with a stage in flight and the overlay is hidden
C10_Witness ==
    /\ ~visible
    /\ generation > 0 /\ closed = generation
    /\ \E w \in DOMAIN workers : workers[w].cancelled /\ IsRunning(workers, w)

\* C11: toggle() on a visible overlay is deactivate() and leaves the session
\* Idle with no stage started; on a hidden overlay it is activate() and starts
\* exactly one capture stage. Two toggles in a row from Idle therefore end in
\* Idle with one capture stage started.
C11_ToggleByVisibility ==
    [][Toggle(MaxActivations)
          => IF visible
             THEN /\ Deactivate
                  /\ SessionState' = "Idle"
                  /\ ~AnyStageStarted
                  /\ DOMAIN workers' = DOMAIN workers
             ELSE /\ Activate(MaxActivations)
                  /\ visible'
                  /\ StageStarted("stt")
                  /\ Cardinality(DOMAIN workers' \ DOMAIN workers) = 1
                  /\ ~StageStarted("llm") /\ ~StageStarted("tts")]_vars

\* toggled on and off again with no signal handled in between: hidden, and the
\* one capture stage of the first toggle is the only worker there is
C11_Witness ==
    /\ ~visible
    /\ generation = 1 /\ closed = 1
    /\ status = SetStatus(MSG_LISTENING, ACCENT_COLOR)
    /\ Cardinality(DOMAIN workers) = 1
    /\ \A w \in DOMAIN workers :
          workers[w].kind = "stt" /\ workers[w].phase = "started" /\ workers[w].cancelled

\* the failure of a stage is on its way to the GUI thread
FailureQueued ==
    \E i \in 1..Len(queue) : queue[i].sig \in {"stt_error", "llm_error", "tts_error"}

\* the session listens and a capture stage has just been started
CaptureStarted ==
    /\ SessionState = "Listening"
    /\ \E w \in DOMAIN workers : workers[w].kind = "stt" /\ workers[w].phase = "started"

\* C12: while the overlay stays active, the failure of a capture, an inference
\* or a synthesis stage is followed by a state where the session listens again
\* with a new capture stage started.
C12_FailuresRecovered == (visible /\ FailureQueued) ~> CaptureStarted

\* an inference failure is shown and its resume is pending
C12_Witness ==
    /\ visible
    /\ SessionState = "ErrorCooldown"
    /\ status.msg \in LLM_ERRORS
    /\ \E t \in BagToSet(timers) : t.cause = "llm_error"

\* the GUI thread handles the failure of a stage
FailureHandled == OnSttError \/ OnLlmError \/ OnTtsError

\* C13: the handler of every stage failure sets the status text to the failure
\* message in the error tone.
C13_FailureShown ==
    [][FailureHandled => status' = SetStatus(Head1.arg, ERROR_COLOR)]_vars

\* the terminal signals of a stage: its success signal and its error signal
Terminal(kind) ==
    CASE kind = "stt" -> {"stt_result", "stt_error"}
      [] kind = "llm" -> {"llm_finished", "llm_error"}
      [] kind = "tts" -> {"tts_finished", "tts_error"}

\* run() of worker w returns in this step
ThreadEnds(w) ==
    /\ workers[w].phase # "finished"
    /\ w \in DOMAIN workers' => workers'[w].phase = "finished"

\* C14: when run() of a stage returns, exactly one terminal signal of that stage
\* has been emitted by it: the success signal or the error signal.
C14_OneTerminalOutcome ==
    [][\A w \in DOMAIN workers :
          ThreadEnds(w)
            => /\ Len(queue') = Len(queue) + 1
               /\ queue'[Len(queue')].w = w
               /\ queue'[Len(queue')].sig \in Terminal(workers[w].kind)]_vars

\* C15: once a synthesis invocation has ended, by success, by a synthesis
\* failure or by a failure of the player, its temporary audio file does not
\* exist.
C15_ArtifactRemoved ==
    \A w \in DOMAIN workers :
        (workers[w].kind = "tts" /\ workers[w].phase = "finished") => ~workers[w].tmp

\* a synthesis whose file was written has ended on a failure of the player
C15_Witness ==
    \E i \in 1..Len(queue) :
        /\ queue[i].sig = "tts_error" /\ queue[i].arg = "TTS Error: afplay"
        /\ workers[queue[i].w].phase = "finished"
        /\ ~workers[queue[i].w].tmp

\* run() of inference worker w builds its request in this step
RunsLlm(w) ==
    /\ workers[w].kind = "llm" /\ workers[w].phase = "started"
    /\ w \in DOMAIN workers' /\ workers'[w].phase = "requesting"

\* a step of the thread of an inference worker
LlmThreadStep ==
    \E w \in DOMAIN workers :
        /\ workers[w].kind = "llm" /\ workers[w].phase # "finished"
        /\ w \in DOMAIN workers'
        /\ workers'[w].phase # workers[w].phase

\* C16: no step of LLMWorker.run changes the history, on success or on failure,
\* and the request it builds is the list it was given followed by exactly one
\* user turn holding the user text; that list is the whole history whenever the
\* history is still what it was when the worker was made.
C16_HistoryReadOnly ==
    [][/\ LlmThreadStep => UNCHANGED <<conversation, log>>
       /\ \A w \in DOMAIN workers :
            RunsLlm(w)
              => /\ workers'[w].messages
                       = Append(Given(w), Turn("user", workers[w].user_text))
                 /\ Len(workers'[w].messages) = Len(Given(w)) + 1
                 /\ workers[w].given = conversation
                       => workers'[w].messages
                             = Append(conversation, Turn("user", workers[w].user_text))]_vars

\* the request of a second round: the two recorded turns and the new user turn
C16_Witness ==
    \E w \in DOMAIN workers :
        /\ workers[w].kind = "llm" /\ workers[w].phase = "requesting"
        /\ Len(conversation) = 2
        /\ workers[w].messages = Append(conversation, Turn("user", workers[w].user_text))

\* C17: a capture failure schedules exactly one resume after 2000 ms, an
\* inference failure exactly one after 3000 ms; when such a timer expires on a
\* visible overlay the panel is collapsed and a capture stage is started, and
\* on a hidden overlay nothing happens: no stage, no change of the UI.
C17_ErrorResume ==
    [][/\ OnSttError
            => /\ timers' = Schedule(STT_ERROR_DELAY, workers[Head1.w].gen, "stt_error")
               /\ BagCardinality(timers') = BagCardinality(timers) + 1
       /\ OnLlmError
            => /\ timers' = Schedule(LLM_ERROR_DELAY, workers[Head1.w].gen, "llm_error")
               /\ BagCardinality(timers') = BagCardinality(timers) + 1
       /\ \A t \in BagToSet(timers) :
            (t.cause \in {"stt_error", "llm_error"} /\ Fires(t))
               => /\ t.delay = IF t.cause = "stt_error" THEN STT_ERROR_DELAY
                                                        ELSE LLM_ERROR_DELAY
                  /\ IF visible
                     THEN /\ response' = SetCollapsed
                          /\ StageStarted("stt")
                          /\ SessionState' = "Listening"
                     ELSE /\ ~AnyStageStarted
                          /\ UNCHANGED <<visible, status, response, pulse,
                                         conversation, workers, queue>>]_vars

\* the overlay was dismissed during the cooldown of a capture failure: the
\* resume is still pending and will find the overlay hidden
C17_Witness ==
    /\ ~visible
    /\ status.tone = ERROR_COLOR
    /\ \E t \in BagToSet(timers) : t.cause = "stt_error" /\ t.delay = STT_ERROR_DELAY

\* C18: the history changes in no step but the handling of an inference
\* success: activate, deactivate, toggle, the handling of every other outcome
\* and the resume leave it as it is, and a failed inference records nothing.
C18_HistoryFrame ==
    [][/\ conversation' # conversation => OnLlmReply
       /\ (\/ ActivateStep \/ Deactivate \/ Toggle(MaxActivations) \/ ResumeListening
           \/ OnListeningStarted \/ OnSttResult \/ OnSttError \/ OnLlmError
           \/ OnTtsDone \/ OnTtsError)
             => UNCHANGED <<conversation, log>>]_vars

\* the first inference failed: its failure was handled and nothing is recorded
C18_Witness ==
    /\ \E t \in BagToSet(timers) : t.cause = "llm_error"
    /\ conversation = <<>>
    /\ log = <<>>

\* C19: the request of an inference worker is the history as it was when the
\* worker was made, followed by the new user turn, whatever the GUI thread
\* appended to the history between the making of the worker and the start of
\* its run().
C19_RequestIsSnapshot ==
    [][\A w \in DOMAIN workers :
          RunsLlm(w)
            => workers'[w].messages
                  = Append(workers[w].given, Turn("user", workers[w].user_text))]_vars

\* the synthesis workers started in this step
NewTts ==
    {w \in DOMAIN workers' :
        /\ workers'[w].kind = "tts" /\ workers'[w].phase = "started"
        /\ ~(w \in DOMAIN workers /\ workers[w].kind = "tts"
                                   /\ workers[w].phase = "started")}

\* C20: the handling of an inference success appends (user, text) and
\* (assistant, reply) under the cap, expands the panel with the reply and starts
\* exactly one synthesis stage with that reply and no other stage; whenever a
\* synthesis stage starts, the last turn of the history is (assistant, reply)
\* and the expanded panel shows the reply being spoken.
C20_ReplyHandledInOrder ==
    [][/\ OnLlmReply
            => /\ conversation' = CapHistory(AppendPair(conversation,
                                     workers[Head1.w].user_text, Head1.arg))
               /\ Len(conversation') >= 2
               /\ conversation'[Len(conversation') - 1]
                     = Turn("user", workers[Head1.w].user_text)
               /\ response' = SetExpanded(Head1.arg)
               /\ Cardinality(NewTts) = 1
               /\ \A w \in NewTts : workers'[w].text = Head1.arg
               /\ ~StageStarted("stt") /\ ~StageStarted("llm")
       /\ \A w \in NewTts :
            /\ OnLlmReply
            /\ conversation'[Len(conversation')] = Turn("assistant", workers'[w].text)
            /\ response'.shown /\ response'.text = workers'[w].text]_vars

\* a synthesis stage has just been started for the reply on display
C20_Witness ==
    \E w \in DOMAIN workers :
        /\ workers[w].kind = "tts" /\ workers[w].phase = "started"
        /\ response = SetExpanded(workers[w].text)
        /\ conversation # <<>>
        /\ conversation[Len(conversation)] = Turn("assistant", workers[w].text)
        /\ status = SetStatus(MSG_ANSWER, TEXT_COLOR)

\* the value a setting should have: the override cast to the type of the
\* default where there is one and the cast goes through, the default otherwise
Tolerant(k) ==
    IF /\ overrides.mapping
       /\ k \in DOMAIN overrides.items
       /\ ~Cast(DefaultSettings[k], overrides.items[k]).raised
    THEN Cast(DefaultSettings[k], overrides.items[k]).value
    ELSE DefaultSettings[k]

\* unknown keys are ignored and the DEFAULTS table is as it was written
ConfigFrame ==
    /\ DEFAULTS = DefaultSettings
    /\ startup = "ready" => DOMAIN CFG = DOMAIN DefaultSettings

\* C21: whatever config.yaml holds, the start of the program does not crash:
\* every setting is the override cast to the type of its default, or the
\* default where the override cannot be cast; unknown keys are ignored and
\* DEFAULTS is never modified.
C21_MalformedConfigTolerated ==
    /\ startup # "crashed"
    /\ ConfigFrame
    /\ startup = "ready" => \A k \in DOMAIN DefaultSettings : CFG[k] = Tolerant(k)

\* the last message of the request worker w sent: its user turn
SentUserTurn(w) == workers[w].messages[Len(workers[w].messages)]

\* C22: the user turn recorded with a reply is the user turn of the request
\* that produced the reply, also when inference workers overlap and complete in
\* the opposite order to the one they were started in.
C22_UserTextBoundPerWorker ==
    [][OnLlmReply
          => /\ workers[Head1.w].messages # <<>>
             /\ Head1.arg = EchoReply(SentUserTurn(Head1.w).content)
             /\ conversation'[Len(conversation') - 1] = SentUserTurn(Head1.w)
             /\ conversation'[Len(conversation')] = Turn("assistant", Head1.arg)
             /\ log' = log \o <<SentUserTurn(Head1.w), Turn("assistant", Head1.arg)>>]_vars

\* the second utterance was answered and recorded while the inference of the
\* first, started earlier, is still in flight
C22_Witness ==
    /\ log = <<Turn("user", "2"), Turn("assistant", "re 2")>>
    /\ \E w \in InFlightOf("llm") : workers[w].user_text = "1"

IsPrefix(s, t) == Len(s) <= Len(t) /\ SubSeq(t, 1, Len(s)) = s

\* an inference stage is made in this step
NewLlm ==
    {w \in DOMAIN workers' :
        /\ workers'[w].kind = "llm" /\ workers'[w].phase = "started"
        /\ ~(w \in DOMAIN workers /\ workers[w].kind = "llm"
                                   /\ workers[w].phase = "started")}

\* C23: the history outlives a session: deactivate() and activate() leave it as
\* it is, no step makes it shorter (below the cap every step keeps what it
\* held), and an inference stage is given the whole history of the moment it is
\* made, which its request starts with; so the first request of a later
\* activation holds the turns the earlier one recorded.
C23_HistoryOutlivesSession ==
    [][/\ Len(conversation') >= Len(conversation)
       /\ Len(conversation') <= HISTORY_CAP
             => IsPrefix(conversation, conversation')
       /\ (Deactivate \/ Activate(MaxHistorySessions)) => conversation' = conversation
       /\ \A w \in NewLlm : workers'[w].given = conversation
       /\ \A w \in DOMAIN workers :
             RunsLlm(w) => IsPrefix(workers[w].given, workers'[w].messages)]_vars

\* the first round's reply was being spoken when deactivate() was called (its
\* stage is marked), and the request of the second activation starts with that
\* round
C23_Witness ==
    /\ generation = 2
    /\ \E w \in DOMAIN workers :
          /\ workers[w].kind = "tts" /\ workers[w].gen = 1
          /\ workers[w].cancelled /\ workers[w].text = "re 1"
    /\ \E w \in DOMAIN workers :
          /\ workers[w].kind = "llm" /\ workers[w].gen = 2
          /\ workers[w].messages =
                <<Turn("user", "1"), Turn("assistant", "re 1"), Turn("user", "2")>>

\* no stage in flight and no resume timer pending
Quiescent == InFlight(workers, queue) = {} /\ timers = EmptyBag

\* deactivate() has been called and no activate() has followed
Dismissed == ~visible /\ generation > 0

\* C24: once the overlay is dismissed, no step but an activation starts a
\* capture stage, and unless it is activated again the program comes to rest:
\* no stage in flight, no resume timer pending.
C24_QuiescentAfterDeactivate ==
    /\ [][(~visible /\ ~ActivateStep) => ~StageStarted("stt")]_vars
    /\ Dismissed ~> (visible \/ Quiescent)

\* the overlay is dismissed while a capture is in flight: its text, the
\* inference, the synthesis and the resume timer are still to come
C24_Witness ==
    /\ Dismissed
    /\ \E w \in InFlightOf("stt") : workers[w].cancelled

====
